---- MODULE Spec2Model ----
(***************************************************************************)
(* State-machine model of the catalog application (django_local_library): *)
(* the relational store declared in catalog/models.py and the request     *)
(* handlers of catalog/views.py (HTML class-based views, the loan renewal *)
(* view, the landing view and the JSON API of catalog/serializers.py).    *)
(*                                                                         *)
(* One action is one request handled from dispatch to response.  The      *)
(* variable resp holds the last request together with its response.       *)
(* Payload columns that no rule reads (first_name, title, summary,        *)
(* imprint, dates of birth/death) are left out of the rows.               *)
(***************************************************************************)
EXTENDS Integers, Sequences, FiniteSets, TLC

VARIABLES authors, genres, languages, books, instances, nextId, today,
          sessions, pending, resp

vars == <<authors, genres, languages, books, instances, nextId, today,
          sessions, pending, resp>>

store == <<authors, genres, languages, books, instances>>

(* ------------------------------ bounds --------------------------------- *)

\* rows ever inserted, over all tables, in the catalog specification
MaxRows == 3
\* authors, books and copies ever inserted in the references specification
MaxRefRows == 2
\* rows ever inserted through the JSON API in the API specification
MaxApiRows == 2
\* genres and languages ever inserted in the uniqueness specification
MaxNamed == 2
\* form submissions between validation and save in the uniqueness specification
MaxInFlight == 1
\* copies ever inserted in the loans specification
MaxCopies == 2
\* days that pass in the renewal specification
MaxDay == 2
\* landing-view loads of one session in the visits specification
MaxVisits == 3

(* ------------------------------ values --------------------------------- *)

\* a null foreign key (primary keys start at 1)
NoRef == 0
\* a null DateField is <<>>, a date d is <<d>> (days as integers)
NoDate == <<>>
SomeDate(d) == <<d>>

\* names are sequences of ASCII code points: "Ab", "AB", "Cd"
Name_Ab == <<65, 98>>
Name_AB == <<65, 66>>
Name_Cd == <<67, 100>>
Names == {Name_Ab, Name_AB, Name_Cd}

AuthorNames == {"Austen", "Borges"}
Isbns == {"9780000000001", "9780000000002"}
LOAN_STATUS == {"m", "o", "a", "r"}

\* Lower("name"): the database LOWER() / str.lower() on ASCII
LowerChar(c) == IF c >= 65 /\ c <= 90 THEN c + 32 ELSE c
Lower(name) == [i \in DOMAIN name |-> LowerChar(name[i])]

\* a table maps the primary keys of its rows to the rows
EmptyTable == [x \in {} |-> x]
Put(f, k, v) == [x \in (DOMAIN f) \cup {k} |-> IF x = k THEN v ELSE f[x]]
Drop(f, k) == [x \in (DOMAIN f) \ {k} |-> f[x]]

(* ---------------------------- identities ------------------------------- *)

\* the requesting identities: anonymous, a logged-in member without
\* permissions, a librarian holding the model permissions, a superuser
Users == {"anon", "member", "librarian", "admin"}
Sessions == {"s1", "s2", "s3"}

is_authenticated(u) == u # "anon"
is_superuser(u) == u = "admin"

\* Django's default model permissions plus Meta.permissions of BookInstance
ModelPerms ==
  { "catalog.add_author", "catalog.change_author", "catalog.delete_author",
    "catalog.add_book", "catalog.change_book", "catalog.delete_book",
    "catalog.add_genre", "catalog.change_genre", "catalog.delete_genre",
    "catalog.add_language", "catalog.change_language", "catalog.delete_language",
    "catalog.add_bookinstance", "catalog.change_bookinstance",
    "catalog.delete_bookinstance", "catalog.can_mark_returned" }

UserPerms(u) == IF u = "librarian" THEN ModelPerms ELSE {}

has_perm(u, p) == is_authenticated(u) /\ (is_superuser(u) \/ p \in UserPerms(u))

\* permission_required of each HTML view
permission_required(op) ==
  CASE op = "AuthorCreate" -> "catalog.add_author"
    [] op = "AuthorUpdate" -> "catalog.change_author"
    [] op = "AuthorDelete" -> "catalog.delete_author"
    [] op = "BookCreate" -> "catalog.add_book"
    [] op = "BookUpdate" -> "catalog.change_book"
    [] op = "BookDelete" -> "catalog.delete_book"
    [] op = "GenreCreate" -> "catalog.create_genre"
    [] op = "GenreUpdate" -> "catalog.change_genre"
    [] op = "GenreDelete" -> "catalog.delete_genre"
    [] op = "LanguageCreate" -> "catalog.add_language"
    [] op = "LanguageUpdate" -> "catalog.change_language"
    [] op = "LanguageDelete" -> "catalog.delete_language"
    [] op = "BookInstanceCreate" -> "catalog.add_bookinstance"
    [] op = "BookInstanceUpdate" -> "catalog.change_bookinstance"
    [] op = "BookInstanceDelete" -> "catalog.delete_bookinstance"
    [] op = "renew_book_librarian" -> "catalog.can_mark_returned"
    [] op = "LoanedBookAllListView" -> "catalog.can_mark_returned"

\* PermissionRequiredMixin.dispatch: "" when the request may proceed,
\* otherwise the response (login redirect for anonymous, 403 otherwise)
PermissionRequiredMixin(u, op) ==
  IF has_perm(u, permission_required(op)) THEN ""
  ELSE IF is_authenticated(u) THEN "forbidden" ELSE "redirect_login"

\* a permission class that lets every request through, as AllowAny does
IsAuthenticatedOrReadOnly_AllowAny(u, method) == TRUE

\* permissions.IsAuthenticatedOrReadOnly
SAFE_METHODS == {"GET", "HEAD", "OPTIONS"}
IsAuthenticatedOrReadOnly(u, method) ==
  method \in SAFE_METHODS \/ is_authenticated(u)

\* the last request and its response: the handler, the route family, the
\* requesting identity, the primary key and the form submitted (NoRef and
\* << >> when the request carries none), the outcome and the payload
Response(op, route, u, pk, form, status, data) ==
  [op |-> op, route |-> route, user |-> u, pk |-> pk, form |-> form,
   status |-> status, data |-> data]


(* ----------------------------- the store ------------------------------- *)

\* Model.save() of a new row: the next primary key of the table
Insert(table, pk, row) == Put(table, pk, row)

\* a Book.author that restricts nothing, as on_delete=models.SET_NULL would
AuthorRestrictedBy_Unrestricted(pk) == {}

\* on_delete=models.RESTRICT on Book.author and BookInstance.book:
\* the rows that block the deletion of the referenced row
AuthorRestrictedBy(pk) == {b \in DOMAIN books : books[b].author = pk}
BookRestrictedBy(pk) == {i \in DOMAIN instances : instances[i].book = pk}

\* a Book.language that is left as it was, as on_delete=models.DO_NOTHING would
LanguageSetNull_DoNothing(pk) == books

\* on_delete=models.SET_NULL on Book.language
LanguageSetNull(pk) ==
  [b \in DOMAIN books |->
     IF books[b].language = pk THEN [books[b] EXCEPT !.language = NoRef]
     ELSE books[b]]

\* ManyToManyField Book.genre: deleting a genre deletes its links
GenreCascade(pk) ==
  [b \in DOMAIN books |-> [books[b] EXCEPT !.genre = @ \ {pk}]]

\* UniqueConstraint(Lower("name")) of Genre and Language: the names of the
\* other rows of the table that collide with the name
NameCollisions(table, pk, name) ==
  {x \in (DOMAIN table) \ {pk} : Lower(table[x].name) = Lower(name)}

\* a unique index on the name as written, as UniqueConstraint(fields=["name"])
GenreUniqueConstraint_CaseSensitive(pk, name) ==
  \A x \in (DOMAIN genres) \ {pk} : genres[x].name # name

\* the unique index genre_name_case_insensitive_unique
GenreUniqueConstraint(pk, name) == NameCollisions(genres, pk, name) = {}
\* the unique index language_name_insesitive_unique
LanguageUniqueConstraint(pk, name) == NameCollisions(languages, pk, name) = {}

\* unique=True on Book.isbn: exact match
IsbnCollisions(pk, isbn) ==
  {b \in (DOMAIN books) \ {pk} : books[b].isbn = isbn}

\* rows ever inserted
Rows == (nextId.author - 1) + (nextId.genre - 1) + (nextId.language - 1)
        + (nextId.book - 1) + (nextId.instance - 1)

Reply(r) == resp' = r /\ UNCHANGED <<today, sessions, pending>>
Unchanged == UNCHANGED <<authors, genres, languages, books, instances, nextId>>

(* ------------------------- Author: HTML views -------------------------- *)

\* a required CharField: blank input fails the form
AuthorFormValid(name) == name # ""

AuthorCreate(u, name) ==
  LET op == "AuthorCreate"
      deny == PermissionRequiredMixin(u, op)
      new == nextId.author
  IN  IF deny # "" THEN
        Unchanged /\ Reply(Response(op, "html", u, NoRef, name, deny, << >>))
      ELSE IF ~AuthorFormValid(name) THEN
        Unchanged /\ Reply(Response(op, "html", u, NoRef, name, "form_error", << >>))
      ELSE
        /\ authors' = Insert(authors, new, [last_name |-> name])
        /\ nextId' = [nextId EXCEPT !.author = new + 1]
        /\ UNCHANGED <<genres, languages, books, instances>>
        /\ Reply(Response(op, "html", u, NoRef, name, "redirect_success", <<new>>))

AuthorUpdate(u, pk, name) ==
  LET op == "AuthorUpdate"
      deny == PermissionRequiredMixin(u, op)
  IN  IF deny # "" THEN
        Unchanged /\ Reply(Response(op, "html", u, pk, name, deny, << >>))
      ELSE IF pk \notin DOMAIN authors THEN
        Unchanged /\ Reply(Response(op, "html", u, pk, name, "not_found", << >>))
      ELSE IF ~AuthorFormValid(name) THEN
        Unchanged /\ Reply(Response(op, "html", u, pk, name, "form_error", << >>))
      ELSE
        /\ authors' = [authors EXCEPT ![pk].last_name = name]
        /\ UNCHANGED <<genres, languages, books, instances, nextId>>
        /\ Reply(Response(op, "html", u, pk, name, "redirect_success", << >>))

\* AuthorDelete.form_valid: try self.object.delete() except Exception
AuthorDelete(u, pk) ==
  LET op == "AuthorDelete"
      deny == PermissionRequiredMixin(u, op)
  IN  IF deny # "" THEN
        Unchanged /\ Reply(Response(op, "html", u, pk, << >>, deny, << >>))
      ELSE IF pk \notin DOMAIN authors THEN
        Unchanged /\ Reply(Response(op, "html", u, pk, << >>, "not_found", << >>))
      ELSE IF AuthorRestrictedBy(pk) # {} THEN
        Unchanged /\ Reply(Response(op, "html", u, pk, << >>, "redirect_confirm", << >>))
      ELSE
        /\ authors' = Drop(authors, pk)
        /\ UNCHANGED <<genres, languages, books, instances, nextId>>
        /\ Reply(Response(op, "html", u, pk, << >>, "redirect_success", << >>))

(* ------------------------- Author: JSON API ---------------------------- *)

\* AuthorSerializer: the fields of a row, with its id
AuthorSerializer(pk) == [id |-> pk, last_name |-> authors[pk].last_name]

\* AuthorList.get
AuthorList_get(u) ==
  LET op == "AuthorList.get" IN
  /\ Unchanged
  /\ IF ~IsAuthenticatedOrReadOnly(u, "GET") THEN
       Reply(Response(op, "api", u, NoRef, << >>, "denied", << >>))
     ELSE
       Reply(Response(op, "api", u, NoRef, << >>, "ok",
                    {AuthorSerializer(a) : a \in DOMAIN authors}))

\* AuthorList.post
AuthorList_post(u, name) ==
  LET op == "AuthorList.post"
      new == nextId.author
  IN  IF ~IsAuthenticatedOrReadOnly(u, "POST") THEN
        Unchanged /\ Reply(Response(op, "api", u, NoRef, name, "denied", << >>))
      ELSE IF ~AuthorFormValid(name) THEN
        Unchanged /\ Reply(Response(op, "api", u, NoRef, name, "bad_request", << >>))
      ELSE
        /\ authors' = Insert(authors, new, [last_name |-> name])
        /\ nextId' = [nextId EXCEPT !.author = new + 1]
        /\ UNCHANGED <<genres, languages, books, instances>>
        /\ Reply(Response(op, "api", u, NoRef, name, "created",
                          {[id |-> new, last_name |-> name]}))

\* AuthorDetail.get
AuthorDetail_get(u, pk) ==
  LET op == "AuthorDetail.get" IN
  /\ Unchanged
  /\ IF ~IsAuthenticatedOrReadOnly(u, "GET") THEN
        Reply(Response(op, "api", u, pk, << >>, "denied", << >>))
      ELSE IF pk \notin DOMAIN authors THEN
        Reply(Response(op, "api", u, pk, << >>, "not_found", << >>))
      ELSE
        Reply(Response(op, "api", u, pk, << >>, "ok", {AuthorSerializer(pk)}))

\* AuthorDetail.put
AuthorDetail_put(u, pk, name) ==
  LET op == "AuthorDetail.put" IN
  IF ~IsAuthenticatedOrReadOnly(u, "PUT") THEN
    Unchanged /\ Reply(Response(op, "api", u, pk, name, "denied", << >>))
  ELSE IF pk \notin DOMAIN authors THEN
    Unchanged /\ Reply(Response(op, "api", u, pk, name, "not_found", << >>))
  ELSE IF ~AuthorFormValid(name) THEN
    Unchanged /\ Reply(Response(op, "api", u, pk, name, "bad_request", << >>))
  ELSE
    /\ authors' = [authors EXCEPT ![pk].last_name = name]
    /\ UNCHANGED <<genres, languages, books, instances, nextId>>
    /\ Reply(Response(op, "api", u, pk, name, "ok",
                      {[id |-> pk, last_name |-> name]}))

\* AuthorDetail.delete: instance.delete() with nothing catching the
\* RestrictedError of a referenced author
AuthorDetail_delete(u, pk) ==
  LET op == "AuthorDetail.delete" IN
  IF ~IsAuthenticatedOrReadOnly(u, "DELETE") THEN
    Unchanged /\ Reply(Response(op, "api", u, pk, << >>, "denied", << >>))
  ELSE IF pk \notin DOMAIN authors THEN
    Unchanged /\ Reply(Response(op, "api", u, pk, << >>, "not_found", << >>))
  ELSE IF AuthorRestrictedBy(pk) # {} THEN
    Unchanged /\ Reply(Response(op, "api", u, pk, << >>, "server_error", << >>))
  ELSE
    /\ authors' = Drop(authors, pk)
    /\ UNCHANGED <<genres, languages, books, instances, nextId>>
    /\ Reply(Response(op, "api", u, pk, << >>, "no_content", << >>))


(* ------------------------- Genre: HTML views ---------------------- *)

\* ModelForm validation of GenreCreate / GenreUpdate: full_clean() runs
\* validate_constraints(), which reports a colliding name as a form error
GenreFormValid(pk, name) == GenreUniqueConstraint(pk, name)

GenreCreate(u, name) ==
  LET op == "GenreCreate"
      deny == PermissionRequiredMixin(u, op)
      new == nextId.genre
  IN  IF deny # "" THEN
        Unchanged /\ Reply(Response(op, "html", u, NoRef, name, deny, << >>))
      ELSE IF ~GenreFormValid(NoRef, name) THEN
        Unchanged /\ Reply(Response(op, "html", u, NoRef, name, "form_error", << >>))
      ELSE
        /\ genres' = Insert(genres, new, [name |-> name])
        /\ nextId' = [nextId EXCEPT !.genre = new + 1]
        /\ UNCHANGED <<authors, languages, books, instances>>
        /\ Reply(Response(op, "html", u, NoRef, name, "redirect_success", <<new>>))

GenreUpdate(u, pk, name) ==
  LET op == "GenreUpdate"
      deny == PermissionRequiredMixin(u, op)
  IN  IF deny # "" THEN
        Unchanged /\ Reply(Response(op, "html", u, pk, name, deny, << >>))
      ELSE IF pk \notin DOMAIN genres THEN
        Unchanged /\ Reply(Response(op, "html", u, pk, name, "not_found", << >>))
      ELSE IF ~GenreFormValid(pk, name) THEN
        Unchanged /\ Reply(Response(op, "html", u, pk, name, "form_error", << >>))
      ELSE
        /\ genres' = [genres EXCEPT ![pk].name = name]
        /\ UNCHANGED <<authors, languages, books, instances, nextId>>
        /\ Reply(Response(op, "html", u, pk, name, "redirect_success", << >>))

\* the default DeleteView.form_valid: self.object.delete()
GenreDelete(u, pk) ==
  LET op == "GenreDelete"
      deny == PermissionRequiredMixin(u, op)
  IN  IF deny # "" THEN
        Unchanged /\ Reply(Response(op, "html", u, pk, << >>, deny, << >>))
      ELSE IF pk \notin DOMAIN genres THEN
        Unchanged /\ Reply(Response(op, "html", u, pk, << >>, "not_found", << >>))
      ELSE
        /\ genres' = Drop(genres, pk)
        /\ books' = GenreCascade(pk)
        /\ UNCHANGED <<authors, languages, instances, nextId>>
        /\ Reply(Response(op, "html", u, pk, << >>, "redirect_success", << >>))

(* ------------------------- Genre: JSON API ------------------------ *)

\* GenreSerializer: fields id and name; it declares no validator, so a
\* colliding name reaches the database and fails there
GenreSerializer(pk) == [id |-> pk, name |-> genres[pk].name]

\* GenreList.get
GenreList_get(u) ==
  LET op == "GenreList.get" IN
  /\ Unchanged
  /\ IF ~IsAuthenticatedOrReadOnly(u, "GET") THEN
       Reply(Response(op, "api", u, NoRef, << >>, "denied", << >>))
     ELSE
       Reply(Response(op, "api", u, NoRef, << >>, "ok",
                    {GenreSerializer(g) : g \in DOMAIN genres}))

\* GenreList.post
GenreList_post(u, name) ==
  LET op == "GenreList.post"
      new == nextId.genre
  IN  IF ~IsAuthenticatedOrReadOnly(u, "POST") THEN
        Unchanged /\ Reply(Response(op, "api", u, NoRef, name, "denied", << >>))
      ELSE IF ~GenreUniqueConstraint(NoRef, name) THEN
        Unchanged /\ Reply(Response(op, "api", u, NoRef, name, "server_error", << >>))
      ELSE
        /\ genres' = Insert(genres, new, [name |-> name])
        /\ nextId' = [nextId EXCEPT !.genre = new + 1]
        /\ UNCHANGED <<authors, languages, books, instances>>
        /\ Reply(Response(op, "api", u, NoRef, name, "created",
                          {[id |-> new, name |-> name]}))

\* GenreDetail.get
GenreDetail_get(u, pk) ==
  LET op == "GenreDetail.get" IN
  /\ Unchanged
  /\ IF ~IsAuthenticatedOrReadOnly(u, "GET") THEN
        Reply(Response(op, "api", u, pk, << >>, "denied", << >>))
      ELSE IF pk \notin DOMAIN genres THEN
        Reply(Response(op, "api", u, pk, << >>, "not_found", << >>))
      ELSE
        Reply(Response(op, "api", u, pk, << >>, "ok", {GenreSerializer(pk)}))

\* GenreDetail.put
GenreDetail_put(u, pk, name) ==
  LET op == "GenreDetail.put" IN
  IF ~IsAuthenticatedOrReadOnly(u, "PUT") THEN
    Unchanged /\ Reply(Response(op, "api", u, pk, name, "denied", << >>))
  ELSE IF pk \notin DOMAIN genres THEN
    Unchanged /\ Reply(Response(op, "api", u, pk, name, "not_found", << >>))
  ELSE IF ~GenreUniqueConstraint(pk, name) THEN
    Unchanged /\ Reply(Response(op, "api", u, pk, name, "server_error", << >>))
  ELSE
    /\ genres' = [genres EXCEPT ![pk].name = name]
    /\ UNCHANGED <<authors, languages, books, instances, nextId>>
    /\ Reply(Response(op, "api", u, pk, name, "ok", {[id |-> pk, name |-> name]}))

\* GenreDetail.delete
GenreDetail_delete(u, pk) ==
  LET op == "GenreDetail.delete" IN
  IF ~IsAuthenticatedOrReadOnly(u, "DELETE") THEN
    Unchanged /\ Reply(Response(op, "api", u, pk, << >>, "denied", << >>))
  ELSE IF pk \notin DOMAIN genres THEN
    Unchanged /\ Reply(Response(op, "api", u, pk, << >>, "not_found", << >>))
  ELSE
    /\ genres' = Drop(genres, pk)
    /\ books' = GenreCascade(pk)
    /\ UNCHANGED <<authors, languages, instances, nextId>>
    /\ Reply(Response(op, "api", u, pk, << >>, "no_content", << >>))

(* ------------------------- Language: HTML views ------------------- *)

\* ModelForm validation of LanguageCreate / LanguageUpdate: full_clean() runs
\* validate_constraints(), which reports a colliding name as a form error
LanguageFormValid(pk, name) == LanguageUniqueConstraint(pk, name)

LanguageCreate(u, name) ==
  LET op == "LanguageCreate"
      deny == PermissionRequiredMixin(u, op)
      new == nextId.language
  IN  IF deny # "" THEN
        Unchanged /\ Reply(Response(op, "html", u, NoRef, name, deny, << >>))
      ELSE IF ~LanguageFormValid(NoRef, name) THEN
        Unchanged /\ Reply(Response(op, "html", u, NoRef, name, "form_error", << >>))
      ELSE
        /\ languages' = Insert(languages, new, [name |-> name])
        /\ nextId' = [nextId EXCEPT !.language = new + 1]
        /\ UNCHANGED <<authors, genres, books, instances>>
        /\ Reply(Response(op, "html", u, NoRef, name, "redirect_success", <<new>>))

LanguageUpdate(u, pk, name) ==
  LET op == "LanguageUpdate"
      deny == PermissionRequiredMixin(u, op)
  IN  IF deny # "" THEN
        Unchanged /\ Reply(Response(op, "html", u, pk, name, deny, << >>))
      ELSE IF pk \notin DOMAIN languages THEN
        Unchanged /\ Reply(Response(op, "html", u, pk, name, "not_found", << >>))
      ELSE IF ~LanguageFormValid(pk, name) THEN
        Unchanged /\ Reply(Response(op, "html", u, pk, name, "form_error", << >>))
      ELSE
        /\ languages' = [languages EXCEPT ![pk].name = name]
        /\ UNCHANGED <<authors, genres, books, instances, nextId>>
        /\ Reply(Response(op, "html", u, pk, name, "redirect_success", << >>))

\* the default DeleteView.form_valid: self.object.delete(), which sets
\* Book.language of the referencing books to null
LanguageDelete(u, pk) ==
  LET op == "LanguageDelete"
      deny == PermissionRequiredMixin(u, op)
  IN  IF deny # "" THEN
        Unchanged /\ Reply(Response(op, "html", u, pk, << >>, deny, << >>))
      ELSE IF pk \notin DOMAIN languages THEN
        Unchanged /\ Reply(Response(op, "html", u, pk, << >>, "not_found", << >>))
      ELSE
        /\ languages' = Drop(languages, pk)
        /\ books' = LanguageSetNull(pk)
        /\ UNCHANGED <<authors, genres, instances, nextId>>
        /\ Reply(Response(op, "html", u, pk, << >>, "redirect_success", << >>))

(* ------------------------- Language: JSON API --------------------- *)

\* LanguageSerializer: fields id and name; it declares no validator, so a
\* colliding name reaches the database and fails there
LanguageSerializer(pk) == [id |-> pk, name |-> languages[pk].name]

\* LanguageList.get
LanguageList_get(u) ==
  LET op == "LanguageList.get" IN
  /\ Unchanged
  /\ IF ~IsAuthenticatedOrReadOnly(u, "GET") THEN
       Reply(Response(op, "api", u, NoRef, << >>, "denied", << >>))
     ELSE
       Reply(Response(op, "api", u, NoRef, << >>, "ok",
                    {LanguageSerializer(g) : g \in DOMAIN languages}))

\* LanguageList.post
LanguageList_post(u, name) ==
  LET op == "LanguageList.post"
      new == nextId.language
  IN  IF ~IsAuthenticatedOrReadOnly(u, "POST") THEN
        Unchanged /\ Reply(Response(op, "api", u, NoRef, name, "denied", << >>))
      ELSE IF ~LanguageUniqueConstraint(NoRef, name) THEN
        Unchanged /\ Reply(Response(op, "api", u, NoRef, name, "server_error", << >>))
      ELSE
        /\ languages' = Insert(languages, new, [name |-> name])
        /\ nextId' = [nextId EXCEPT !.language = new + 1]
        /\ UNCHANGED <<authors, genres, books, instances>>
        /\ Reply(Response(op, "api", u, NoRef, name, "created",
                          {[id |-> new, name |-> name]}))

\* LanguageDetail.get
LanguageDetail_get(u, pk) ==
  LET op == "LanguageDetail.get" IN
  /\ Unchanged
  /\ IF ~IsAuthenticatedOrReadOnly(u, "GET") THEN
        Reply(Response(op, "api", u, pk, << >>, "denied", << >>))
      ELSE IF pk \notin DOMAIN languages THEN
        Reply(Response(op, "api", u, pk, << >>, "not_found", << >>))
      ELSE
        Reply(Response(op, "api", u, pk, << >>, "ok", {LanguageSerializer(pk)}))

\* LanguageDetail.put
LanguageDetail_put(u, pk, name) ==
  LET op == "LanguageDetail.put" IN
  IF ~IsAuthenticatedOrReadOnly(u, "PUT") THEN
    Unchanged /\ Reply(Response(op, "api", u, pk, name, "denied", << >>))
  ELSE IF pk \notin DOMAIN languages THEN
    Unchanged /\ Reply(Response(op, "api", u, pk, name, "not_found", << >>))
  ELSE IF ~LanguageUniqueConstraint(pk, name) THEN
    Unchanged /\ Reply(Response(op, "api", u, pk, name, "server_error", << >>))
  ELSE
    /\ languages' = [languages EXCEPT ![pk].name = name]
    /\ UNCHANGED <<authors, genres, books, instances, nextId>>
    /\ Reply(Response(op, "api", u, pk, name, "ok", {[id |-> pk, name |-> name]}))

\* LanguageDetail.delete
LanguageDetail_delete(u, pk) ==
  LET op == "LanguageDetail.delete" IN
  IF ~IsAuthenticatedOrReadOnly(u, "DELETE") THEN
    Unchanged /\ Reply(Response(op, "api", u, pk, << >>, "denied", << >>))
  ELSE IF pk \notin DOMAIN languages THEN
    Unchanged /\ Reply(Response(op, "api", u, pk, << >>, "not_found", << >>))
  ELSE
    /\ languages' = Drop(languages, pk)
    /\ books' = LanguageSetNull(pk)
    /\ UNCHANGED <<authors, genres, instances, nextId>>
    /\ Reply(Response(op, "api", u, pk, << >>, "no_content", << >>))

(* -------------------------- Book: HTML views --------------------------- *)

\* the ModelForm of BookCreate / BookUpdate over a submission
\* [author, isbn, language, genre]: author may be blank, language and genre
\* are required choices among the stored rows, isbn is unique
BookFormValid(pk, data) ==
  /\ data.author = NoRef \/ data.author \in DOMAIN authors
  /\ data.language \in DOMAIN languages
  /\ data.genre # {} /\ data.genre \subseteq DOMAIN genres
  /\ IsbnCollisions(pk, data.isbn) = {}

BookCreate(u, data) ==
  LET op == "BookCreate"
      deny == PermissionRequiredMixin(u, op)
      new == nextId.book
  IN  IF deny # "" THEN
        Unchanged /\ Reply(Response(op, "html", u, NoRef, data, deny, << >>))
      ELSE IF ~BookFormValid(NoRef, data) THEN
        Unchanged /\ Reply(Response(op, "html", u, NoRef, data, "form_error", << >>))
      ELSE
        /\ books' = Insert(books, new, data)
        /\ nextId' = [nextId EXCEPT !.book = new + 1]
        /\ UNCHANGED <<authors, genres, languages, instances>>
        /\ Reply(Response(op, "html", u, NoRef, data, "redirect_success", <<new>>))

BookUpdate(u, pk, data) ==
  LET op == "BookUpdate"
      deny == PermissionRequiredMixin(u, op)
  IN  IF deny # "" THEN
        Unchanged /\ Reply(Response(op, "html", u, pk, data, deny, << >>))
      ELSE IF pk \notin DOMAIN books THEN
        Unchanged /\ Reply(Response(op, "html", u, pk, data, "not_found", << >>))
      ELSE IF ~BookFormValid(pk, data) THEN
        Unchanged /\ Reply(Response(op, "html", u, pk, data, "form_error", << >>))
      ELSE
        /\ books' = [books EXCEPT ![pk] = data]
        /\ UNCHANGED <<authors, genres, languages, instances, nextId>>
        /\ Reply(Response(op, "html", u, pk, data, "redirect_success", << >>))

\* BookDelete.form_valid: try self.object.delete() except Exception
BookDelete(u, pk) ==
  LET op == "BookDelete"
      deny == PermissionRequiredMixin(u, op)
  IN  IF deny # "" THEN
        Unchanged /\ Reply(Response(op, "html", u, pk, << >>, deny, << >>))
      ELSE IF pk \notin DOMAIN books THEN
        Unchanged /\ Reply(Response(op, "html", u, pk, << >>, "not_found", << >>))
      ELSE IF BookRestrictedBy(pk) # {} THEN
        Unchanged /\ Reply(Response(op, "html", u, pk, << >>, "redirect_confirm", << >>))
      ELSE
        /\ books' = Drop(books, pk)
        /\ UNCHANGED <<authors, genres, languages, instances, nextId>>
        /\ Reply(Response(op, "html", u, pk, << >>, "redirect_success", << >>))

(* ---------------------- BookInstance: HTML views ----------------------- *)

\* the borrowers: the stored users (anonymous is no user), or none
NoUser == ""
Borrowers == {u \in Users : is_authenticated(u)} \cup {NoUser}

\* the ModelForm of BookInstanceCreate over a submission
\* [book, due_back, status, borrower]: book is a required choice
BookInstanceFormValid(data) == data.book \in DOMAIN books

BookInstanceCreate(u, data) ==
  LET op == "BookInstanceCreate"
      deny == PermissionRequiredMixin(u, op)
      new == nextId.instance
  IN  IF deny # "" THEN
        Unchanged /\ Reply(Response(op, "html", u, NoRef, data, deny, << >>))
      ELSE IF ~BookInstanceFormValid(data) THEN
        Unchanged /\ Reply(Response(op, "html", u, NoRef, data, "form_error", << >>))
      ELSE
        /\ instances' = Insert(instances, new, data)
        /\ nextId' = [nextId EXCEPT !.instance = new + 1]
        /\ UNCHANGED <<authors, genres, languages, books>>
        /\ Reply(Response(op, "html", u, NoRef, data, "redirect_success", <<new>>))

\* BookInstanceUpdate: fields imprint, due_back, borrower, status
BookInstanceUpdate(u, pk, data) ==
  LET op == "BookInstanceUpdate"
      deny == PermissionRequiredMixin(u, op)
  IN  IF deny # "" THEN
        Unchanged /\ Reply(Response(op, "html", u, pk, data, deny, << >>))
      ELSE IF pk \notin DOMAIN instances THEN
        Unchanged /\ Reply(Response(op, "html", u, pk, data, "not_found", << >>))
      ELSE
        /\ instances' = [instances EXCEPT ![pk] =
                           [book |-> instances[pk].book,
                            due_back |-> data.due_back,
                            status |-> data.status,
                            borrower |-> data.borrower]]
        /\ UNCHANGED <<authors, genres, languages, books, nextId>>
        /\ Reply(Response(op, "html", u, pk, data, "redirect_success", << >>))

BookInstanceDelete(u, pk) ==
  LET op == "BookInstanceDelete"
      deny == PermissionRequiredMixin(u, op)
  IN  IF deny # "" THEN
        Unchanged /\ Reply(Response(op, "html", u, pk, << >>, deny, << >>))
      ELSE IF pk \notin DOMAIN instances THEN
        Unchanged /\ Reply(Response(op, "html", u, pk, << >>, "not_found", << >>))
      ELSE
        /\ instances' = Drop(instances, pk)
        /\ UNCHANGED <<authors, genres, languages, books, nextId>>
        /\ Reply(Response(op, "html", u, pk, << >>, "redirect_success", << >>))

(* ------------------------------- loans --------------------------------- *)

\* BookInstance.is_overdue: bool(self.due_back and date.today() > self.due_back)
\* (None is falsy, every date is truthy)
Truthy(due_back) == due_back # NoDate
\* a comparison that counts the due date itself as overdue
is_overdue_Inclusive(inst) == Truthy(inst.due_back) /\ today >= inst.due_back[1]
is_overdue(inst) == Truthy(inst.due_back) /\ today > inst.due_back[1]

\* a copy as the loan lists show it
BookInstanceRow(i) ==
  [id |-> i, borrower |-> instances[i].borrower, status |-> instances[i].status,
   due_back |-> instances[i].due_back, is_overdue |-> is_overdue(instances[i])]

\* a queryset that forgets the borrower filter
LoanedBooksByUser_queryset_AnyBorrower(u) ==
  {i \in DOMAIN instances : instances[i].status = "o"}

\* LoanedBooksByUserListView.get_queryset
LoanedBooksByUser_queryset(u) ==
  {i \in DOMAIN instances : instances[i].borrower = u /\ instances[i].status = "o"}

\* LoanedBooksByUserListView behind LoginRequiredMixin
LoanedBooksByUserListView(u) ==
  LET op == "LoanedBooksByUserListView" IN
  /\ Unchanged
  /\ IF ~is_authenticated(u) THEN
       Reply(Response(op, "html", u, NoRef, << >>, "redirect_login", << >>))
     ELSE
       Reply(Response(op, "html", u, NoRef, << >>, "rendered",
                      {BookInstanceRow(i) : i \in LoanedBooksByUser_queryset(u)}))

\* LoanedBookAllListView.get_queryset
LoanedBookAll_queryset == {i \in DOMAIN instances : instances[i].status = "o"}

LoanedBookAllListView(u) ==
  LET op == "LoanedBookAllListView"
      deny == PermissionRequiredMixin(u, op)
  IN  /\ Unchanged
      /\ IF deny # "" THEN
           Reply(Response(op, "html", u, NoRef, << >>, deny, << >>))
         ELSE
           Reply(Response(op, "html", u, NoRef, << >>, "rendered",
                          {BookInstanceRow(i) : i \in LoanedBookAll_queryset}))

\* datetime.timedelta(weeks=3), in days
RenewalWeeks == 3
\* a proposal of two weeks
proposed_date_renewal_TwoWeeks == today + 14
proposed_date_renewal == today + 7 * RenewalWeeks

\* RenewBookForm(request.POST).is_valid(): a required date field with no
\* range check
RenewBookForm_is_valid(renewal_date) == renewal_date # NoDate

\* renew_book_librarian behind login_required and
\* permission_required(raise_exception=True)
renew_book_librarian(u, pk, method, renewal_date) ==
  LET op == "renew_book_librarian"
      deny == PermissionRequiredMixin(u, op)
      r(status, data) ==
        Response(op, "html", u, pk,
                 [method |-> method, renewal_date |-> renewal_date], status, data)
  IN  IF deny # "" THEN
        Unchanged /\ Reply(r(deny, << >>))
      ELSE IF pk \notin DOMAIN instances THEN
        Unchanged /\ Reply(r("not_found", << >>))
      ELSE IF method = "POST" THEN
        IF RenewBookForm_is_valid(renewal_date) THEN
          /\ instances' = [instances EXCEPT ![pk].due_back = renewal_date]
          /\ UNCHANGED <<authors, genres, languages, books, nextId>>
          /\ Reply(r("redirect_success", << >>))
        ELSE
          Unchanged /\ Reply(r("form_error", << >>))
      ELSE
        Unchanged /\ Reply(r("rendered", SomeDate(proposed_date_renewal)))

\* a day passes (date.today() of the next request is later)
Tick ==
  /\ today' = today + 1
  /\ UNCHANGED <<authors, genres, languages, books, instances, nextId,
                 sessions, pending, resp>>

(* ---------------------------- landing view ----------------------------- *)

\* request.session.get("num_visits", 0)
session_get(s, key, default) ==
  IF \E kv \in sessions[s] : kv[1] = key
  THEN (CHOOSE kv \in sessions[s] : kv[1] = key)[2]
  ELSE default

\* a counter kept for the whole site instead of the session
session_set_Shared(s, key, value) ==
  [x \in Sessions |-> {kv \in sessions[x] : kv[1] # key} \cup {<<key, value>>}]

\* request.session["num_visits"] = value
session_set(s, key, value) ==
  [sessions EXCEPT ![s] = {kv \in sessions[s] : kv[1] # key} \cup {<<key, value>>}]

index(s) ==
  LET num_visits == session_get(s, "num_visits", 0) + 1 IN
  /\ sessions' = session_set(s, "num_visits", num_visits)
  /\ resp' = Response("index", "html", "anon", NoRef, << >>, "rendered",
       [session |-> s,
        num_books |-> Cardinality(DOMAIN books),
        num_instances |-> Cardinality(DOMAIN instances),
        num_instances_available |->
          Cardinality({i \in DOMAIN instances : instances[i].status = "a"}),
        num_authors |-> Cardinality(DOMAIN authors),
        num_visits |-> num_visits])
  /\ UNCHANGED <<authors, genres, languages, books, instances, nextId, today,
                 pending>>

(* ------------------------------- Init ---------------------------------- *)

Init ==
  /\ authors = EmptyTable
  /\ genres = EmptyTable
  /\ languages = EmptyTable
  /\ books = EmptyTable
  /\ instances = EmptyTable
  /\ nextId = [author |-> 1, genre |-> 1, language |-> 1, book |-> 1,
               instance |-> 1]
  /\ today = 0
  /\ sessions = [s \in Sessions |-> {}]
  /\ pending = {}
  /\ resp = Response("", "", "anon", NoRef, << >>, "", << >>)

(* ------------------------- the catalog: Spec --------------------------- *)

\* the primary keys a request may name: those of the stored rows and one
\* that matches no row
Keys(table, next) == (DOMAIN table) \cup {next}

\* submissions of the Book form: blank or stored author, blank or stored
\* language, any selection of stored genres
BookForms ==
  [author : {NoRef} \cup DOMAIN authors, isbn : Isbns,
   language : {NoRef} \cup DOMAIN languages, genre : SUBSET DOMAIN genres]

\* submissions of the BookInstance forms in the catalog specification
CopyForms ==
  [book : {NoRef} \cup DOMAIN books, due_back : {NoDate}, status : {"m", "a"},
   borrower : {NoUser}]

AuthorForms == AuthorNames \cup {""}

\* the names submitted in the catalog specification: two that collide
CatalogNames == {Name_Ab, Name_AB}

AuthorWrites ==
  \/ \E u \in Users, n \in AuthorForms :
       Rows < MaxRows /\ AuthorCreate(u, n)
  \/ \E u \in Users, pk \in Keys(authors, nextId.author), n \in AuthorForms :
       AuthorUpdate(u, pk, n)
  \/ \E u \in Users, pk \in Keys(authors, nextId.author) : AuthorDelete(u, pk)
  \/ \E u \in Users, n \in AuthorForms :
       Rows < MaxRows /\ AuthorList_post(u, n)
  \/ \E u \in Users, pk \in Keys(authors, nextId.author), n \in AuthorForms :
       AuthorDetail_put(u, pk, n)
  \/ \E u \in Users, pk \in Keys(authors, nextId.author) :
       AuthorDetail_delete(u, pk)

GenreWrites ==
  \/ \E u \in Users, n \in CatalogNames : Rows < MaxRows /\ GenreCreate(u, n)
  \/ \E u \in Users, pk \in Keys(genres, nextId.genre), n \in CatalogNames :
       GenreUpdate(u, pk, n)
  \/ \E u \in Users, pk \in Keys(genres, nextId.genre) : GenreDelete(u, pk)
  \/ \E u \in Users, n \in CatalogNames : Rows < MaxRows /\ GenreList_post(u, n)
  \/ \E u \in Users, pk \in Keys(genres, nextId.genre), n \in CatalogNames :
       GenreDetail_put(u, pk, n)
  \/ \E u \in Users, pk \in Keys(genres, nextId.genre) :
       GenreDetail_delete(u, pk)

LanguageWrites ==
  \/ \E u \in Users, n \in CatalogNames : Rows < MaxRows /\ LanguageCreate(u, n)
  \/ \E u \in Users, pk \in Keys(languages, nextId.language), n \in CatalogNames :
       LanguageUpdate(u, pk, n)
  \/ \E u \in Users, pk \in Keys(languages, nextId.language) :
       LanguageDelete(u, pk)
  \/ \E u \in Users, n \in CatalogNames : Rows < MaxRows /\ LanguageList_post(u, n)
  \/ \E u \in Users, pk \in Keys(languages, nextId.language), n \in CatalogNames :
       LanguageDetail_put(u, pk, n)
  \/ \E u \in Users, pk \in Keys(languages, nextId.language) :
       LanguageDetail_delete(u, pk)

BookWrites ==
  \/ \E u \in Users, d \in BookForms : Rows < MaxRows /\ BookCreate(u, d)
  \/ \E u \in Users, pk \in Keys(books, nextId.book), d \in BookForms :
       BookUpdate(u, pk, d)
  \/ \E u \in Users, pk \in Keys(books, nextId.book) : BookDelete(u, pk)

CopyWrites ==
  \/ \E u \in Users, d \in CopyForms : Rows < MaxRows /\ BookInstanceCreate(u, d)
  \/ \E u \in Users, pk \in Keys(instances, nextId.instance), d \in CopyForms :
       BookInstanceUpdate(u, pk, d)
  \/ \E u \in Users, pk \in Keys(instances, nextId.instance) :
       BookInstanceDelete(u, pk)
  \/ \E u \in Users, pk \in Keys(instances, nextId.instance),
        m \in {"GET", "POST"}, d \in {NoDate, SomeDate(proposed_date_renewal)} :
       renew_book_librarian(u, pk, m, d)

ApiReads ==
  \/ \E u \in Users : AuthorList_get(u)
  \/ \E u \in Users, pk \in Keys(authors, nextId.author) : AuthorDetail_get(u, pk)
  \/ \E u \in Users : GenreList_get(u)
  \/ \E u \in Users, pk \in Keys(genres, nextId.genre) : GenreDetail_get(u, pk)
  \/ \E u \in Users : LanguageList_get(u)
  \/ \E u \in Users, pk \in Keys(languages, nextId.language) :
       LanguageDetail_get(u, pk)

Next ==
  \/ AuthorWrites
  \/ GenreWrites
  \/ LanguageWrites
  \/ BookWrites
  \/ CopyWrites
  \/ ApiReads

Spec == Init /\ [][Next]_vars

\* the permission that names each mutating operation, whatever its route
NamedPermission(op) ==
  CASE op = "AuthorList.post" -> "catalog.add_author"
    [] op = "AuthorDetail.put" -> "catalog.change_author"
    [] op = "AuthorDetail.delete" -> "catalog.delete_author"
    [] op = "GenreList.post" -> "catalog.create_genre"
    [] op = "GenreDetail.put" -> "catalog.change_genre"
    [] op = "GenreDetail.delete" -> "catalog.delete_genre"
    [] op = "LanguageList.post" -> "catalog.add_language"
    [] op = "LanguageDetail.put" -> "catalog.change_language"
    [] op = "LanguageDetail.delete" -> "catalog.delete_language"
    [] OTHER -> permission_required(op)

\* C2: a request changes the store only when the requesting identity holds
\* the permission named for the operation, on the HTML routes and on the
\* JSON API alike
C2_PermissionGated ==
  [][ store' # store => has_perm(resp'.user, NamedPermission(resp'.op)) ]_vars


(* --------------------- references: SpecRefs ---------------------------- *)
(* The deletions that meet a foreign key, from a seeded catalog: one genre *)
(* and two languages, as three successful creates leave them.              *)

InitRefs ==
  /\ authors = EmptyTable
  /\ genres = Insert(EmptyTable, 1, [name |-> Name_Ab])
  /\ languages = Insert(Insert(EmptyTable, 1, [name |-> Name_Ab]),
                        2, [name |-> Name_Cd])
  /\ books = EmptyTable
  /\ instances = EmptyTable
  /\ nextId = [author |-> 1, genre |-> 2, language |-> 3, book |-> 1,
               instance |-> 1]
  /\ today = 0
  /\ sessions = [s \in Sessions |-> {}]
  /\ pending = {}
  /\ resp = Response("", "", "anon", NoRef, << >>, "", << >>)

RefRows == (nextId.author - 1) + (nextId.book - 1) + (nextId.instance - 1)

NextRefs ==
  \/ \E u \in Users, n \in AuthorNames : RefRows < MaxRefRows /\ AuthorCreate(u, n)
  \/ \E u \in Users, pk \in Keys(authors, nextId.author) : AuthorDelete(u, pk)
  \/ \E u \in Users, pk \in Keys(authors, nextId.author) :
       AuthorDetail_delete(u, pk)
  \/ \E u \in Users, d \in BookForms : RefRows < MaxRefRows /\ BookCreate(u, d)
  \/ \E u \in Users, pk \in Keys(books, nextId.book) : BookDelete(u, pk)
  \/ \E u \in Users, d \in CopyForms :
       RefRows < MaxRefRows /\ BookInstanceCreate(u, d)
  \/ \E u \in Users, pk \in Keys(instances, nextId.instance) :
       BookInstanceDelete(u, pk)
  \/ \E u \in Users, pk \in Keys(languages, nextId.language) :
       LanguageDelete(u, pk)
  \/ \E u \in Users, pk \in Keys(languages, nextId.language) :
       LanguageDetail_delete(u, pk)

SpecRefs == InitRefs /\ [][NextRefs]_vars

Deleted == {"redirect_success", "no_content"}

\* C1: a delete request, by an HTML delete view or by the JSON API, that
\* targets an Author some Book references or a Book some BookInstance
\* references is rejected, and no row of the store changes
C1_RestrictOnDelete ==
  [][ /\ ( \/ /\ resp'.op \in {"AuthorDelete", "AuthorDetail.delete"}
              /\ resp'.pk \in DOMAIN authors
              /\ \E b \in DOMAIN books : books[b].author = resp'.pk
           \/ /\ resp'.op = "BookDelete"
              /\ resp'.pk \in DOMAIN books
              /\ \E i \in DOMAIN instances : instances[i].book = resp'.pk )
      => /\ resp'.status \notin Deleted
         /\ store' = store ]_vars

\* an author that a book references met a delete request of a permitted
\* librarian and is still stored
C1_Witness ==
  /\ resp.op = "AuthorDelete"
  /\ resp.user = "librarian"
  /\ resp.status = "redirect_confirm"
  /\ resp.pk \in DOMAIN authors
  /\ \E b \in DOMAIN books : books[b].author = resp.pk

\* C3: no request ends in a raw, uncaught failure (the only uncaught
\* failures of the handlers are IntegrityError and RestrictedError)
C3_NoRawFailure == resp.status # "server_error"

\* C5: a served delete of a Language removes it, sets the language of the
\* books that referenced it to null and changes nothing else; a delete
\* request of a permitted identity for a stored Language is served
C5_LanguageSetNull ==
  [][ resp'.op \in {"LanguageDelete", "LanguageDetail.delete"}
      => LET pk == resp'.pk
             permitted ==
               IF resp'.op = "LanguageDelete"
               THEN resp'.user \in {"librarian", "admin"}
               ELSE resp'.user # "anon"
         IN  /\ (permitted /\ pk \in DOMAIN languages)
                  <=> resp'.status \in Deleted
             /\ resp'.status \in Deleted =>
                  /\ DOMAIN languages' = (DOMAIN languages) \ {pk}
                  /\ \A l \in DOMAIN languages' : languages'[l] = languages[l]
                  /\ DOMAIN books' = DOMAIN books
                  /\ \A b \in DOMAIN books :
                       /\ books'[b].language =
                            IF books[b].language = pk THEN NoRef
                            ELSE books[b].language
                       /\ books'[b].author = books[b].author
                       /\ books'[b].isbn = books[b].isbn
                       /\ books'[b].genre = books[b].genre
                  /\ UNCHANGED <<authors, genres, instances>> ]_vars

\* a language was deleted while books referenced it: a book is left with
\* no language beside a book that keeps its own
C5_Witness ==
  /\ resp.op \in {"LanguageDelete", "LanguageDetail.delete"}
  /\ resp.status \in Deleted
  /\ \E b \in DOMAIN books : books[b].language = NoRef
  /\ \E b \in DOMAIN books : books[b].language \in DOMAIN languages

(* ------------------------- JSON API: SpecApi --------------------------- *)

ApiRows == (nextId.author - 1) + (nextId.genre - 1) + (nextId.language - 1)

ApiWrites ==
  \/ \E u \in Users, n \in AuthorForms :
       ApiRows < MaxApiRows /\ AuthorList_post(u, n)
  \/ \E u \in Users, pk \in Keys(authors, nextId.author), n \in AuthorForms :
       AuthorDetail_put(u, pk, n)
  \/ \E u \in Users, pk \in Keys(authors, nextId.author) :
       AuthorDetail_delete(u, pk)
  \/ \E u \in Users, n \in Names : ApiRows < MaxApiRows /\ GenreList_post(u, n)
  \/ \E u \in Users, pk \in Keys(genres, nextId.genre), n \in Names :
       GenreDetail_put(u, pk, n)
  \/ \E u \in Users, pk \in Keys(genres, nextId.genre) :
       GenreDetail_delete(u, pk)
  \/ \E u \in Users, n \in Names : ApiRows < MaxApiRows /\ LanguageList_post(u, n)
  \/ \E u \in Users, pk \in Keys(languages, nextId.language), n \in Names :
       LanguageDetail_put(u, pk, n)
  \/ \E u \in Users, pk \in Keys(languages, nextId.language) :
       LanguageDetail_delete(u, pk)

NextApi == ApiWrites \/ ApiReads

SpecApi == Init /\ [][NextApi]_vars

ApiListOps == {"AuthorList.get", "GenreList.get", "LanguageList.get"}
ApiRetrieveOps == {"AuthorDetail.get", "GenreDetail.get", "LanguageDetail.get"}
ApiCreateOps == {"AuthorList.post", "GenreList.post", "LanguageList.post"}
ApiWriteOps ==
  ApiCreateOps \cup
  {"AuthorDetail.put", "GenreDetail.put", "LanguageDetail.put",
   "AuthorDetail.delete", "GenreDetail.delete", "LanguageDetail.delete"}

\* the table grew by exactly the row [field |-> value] under a fresh key,
\* which the response returns
CreatedOne(old, new, row, returned) ==
  \E id \in DOMAIN new :
    /\ id \notin DOMAIN old
    /\ DOMAIN new = (DOMAIN old) \cup {id}
    /\ new[id] = row
    /\ \A x \in DOMAIN old : new[x] = old[x]
    /\ \E d \in returned : d.id = id /\ returned = {d}

\* C6: on the JSON API a list or retrieve request is served whoever asks;
\* a create, update or delete request of an unauthenticated requester is
\* rejected and changes nothing; an authenticated create with valid fields
\* adds exactly one record and returns it with its identifier
C6_ApiAccess ==
  [][ resp'.route = "api" =>
      /\ resp'.op \in ApiListOps =>
           resp'.status = "ok" /\ store' = store
      /\ resp'.op \in ApiRetrieveOps =>
           resp'.status \in {"ok", "not_found"} /\ store' = store
      /\ (resp'.op \in ApiWriteOps /\ resp'.user = "anon") =>
           resp'.status = "denied" /\ store' = store
      /\ (resp'.op = "AuthorList.post" /\ resp'.user # "anon"
            /\ resp'.form # "") =>
           /\ resp'.status = "created"
           /\ CreatedOne(authors, authors', [last_name |-> resp'.form], resp'.data)
           /\ UNCHANGED <<genres, languages, books, instances>>
      /\ (resp'.op = "GenreList.post" /\ resp'.user # "anon"
            /\ \A g \in DOMAIN genres : Lower(genres[g].name) # Lower(resp'.form)) =>
           /\ resp'.status = "created"
           /\ CreatedOne(genres, genres', [name |-> resp'.form], resp'.data)
           /\ UNCHANGED <<authors, languages, books, instances>>
      /\ (resp'.op = "LanguageList.post" /\ resp'.user # "anon"
            /\ \A l \in DOMAIN languages :
                 Lower(languages[l].name) # Lower(resp'.form)) =>
           /\ resp'.status = "created"
           /\ CreatedOne(languages, languages', [name |-> resp'.form], resp'.data)
           /\ UNCHANGED <<authors, genres, books, instances>> ]_vars

\* a logged-in member without permissions created an author through the API,
\* next to an author created before
C6_Witness ==
  /\ resp.op = "AuthorList.post"
  /\ resp.user = "member"
  /\ resp.status = "created"
  /\ Cardinality(DOMAIN authors) = 2

(* ------------------ concurrent forms: SpecUnique ----------------------- *)
(* CreateView.post and UpdateView.post in two steps, so that requests      *)
(* interleave: dispatch, get_object and form.is_valid() read the store;    *)
(* form_valid() saves later, and the unique index decides then.            *)

NamedCreateOps == {"GenreCreate", "LanguageCreate"}
NamedUpdateOps == {"GenreUpdate", "LanguageUpdate"}
GenreOps == {"GenreCreate", "GenreUpdate"}

\* ProcessFormView.post up to form.is_valid()
post(op, u, pk, name) ==
  LET deny == PermissionRequiredMixin(u, op)
      table == IF op \in GenreOps THEN genres ELSE languages
      valid == IF op \in GenreOps THEN GenreFormValid(pk, name)
               ELSE LanguageFormValid(pk, name)
  IN  IF deny # "" THEN
        /\ Unchanged /\ UNCHANGED pending
        /\ Reply(Response(op, "html", u, pk, name, deny, << >>))
      ELSE IF op \in NamedUpdateOps /\ pk \notin DOMAIN table THEN
        /\ Unchanged /\ UNCHANGED pending
        /\ Reply(Response(op, "html", u, pk, name, "not_found", << >>))
      ELSE IF ~valid THEN
        /\ Unchanged /\ UNCHANGED pending
        /\ Reply(Response(op, "html", u, pk, name, "form_error", << >>))
      ELSE
        /\ pending' = pending \cup {[op |-> op, user |-> u, pk |-> pk, name |-> name]}
        /\ UNCHANGED <<authors, genres, languages, books, instances, nextId,
                       today, sessions, resp>>

\* ModelFormMixin.form_valid: form.save(), an INSERT or UPDATE that the
\* unique index refuses with an IntegrityError nothing catches
form_valid(p) ==
  LET accepted == IF p.op \in GenreOps THEN GenreUniqueConstraint(p.pk, p.name)
                  ELSE LanguageUniqueConstraint(p.pk, p.name)
      new == IF p.op \in GenreOps THEN nextId.genre ELSE nextId.language
      r(status, data) == Response(p.op, "html", p.user, p.pk, p.name, status, data)
  IN  /\ pending' = pending \ {p}
      /\ UNCHANGED <<authors, books, instances, today, sessions>>
      /\ IF ~accepted THEN
           /\ UNCHANGED <<genres, languages, nextId>>
           /\ resp' = r("server_error", << >>)
         ELSE
           /\ resp' = r("redirect_success",
                        IF p.op \in NamedCreateOps THEN <<new>> ELSE << >>)
           /\ CASE p.op = "GenreCreate" ->
                     /\ genres' = Insert(genres, new, [name |-> p.name])
                     /\ nextId' = [nextId EXCEPT !.genre = new + 1]
                     /\ UNCHANGED languages
                [] p.op = "GenreUpdate" ->
                     /\ genres' = [genres EXCEPT ![p.pk].name = p.name]
                     /\ UNCHANGED <<languages, nextId>>
                [] p.op = "LanguageCreate" ->
                     /\ languages' = Insert(languages, new, [name |-> p.name])
                     /\ nextId' = [nextId EXCEPT !.language = new + 1]
                     /\ UNCHANGED genres
                [] p.op = "LanguageUpdate" ->
                     /\ languages' = [languages EXCEPT ![p.pk].name = p.name]
                     /\ UNCHANGED <<genres, nextId>>

\* rows stored and rows that forms in flight are about to insert
NamedRows ==
  (nextId.genre - 1) + (nextId.language - 1)
  + Cardinality({p \in pending : p.op \in NamedCreateOps})

\* the identities of the uniqueness specification: a member, whom only the
\* JSON API lets write, and a superuser
Editors == {"member", "admin"}

NextUnique ==
  \/ \E op \in NamedCreateOps, u \in Editors, n \in Names :
       /\ NamedRows < MaxNamed
       /\ Cardinality(pending) < MaxInFlight
       /\ post(op, u, NoRef, n)
  \/ \E u \in Editors, pk \in Keys(genres, nextId.genre), n \in Names :
       Cardinality(pending) < MaxInFlight /\ post("GenreUpdate", u, pk, n)
  \/ \E u \in Editors, pk \in Keys(languages, nextId.language), n \in Names :
       Cardinality(pending) < MaxInFlight /\ post("LanguageUpdate", u, pk, n)
  \/ \E p \in pending : form_valid(p)
  \/ \E u \in Editors, n \in Names :
       NamedRows < MaxNamed /\ UNCHANGED pending /\ GenreList_post(u, n)
  \/ \E u \in Editors, pk \in Keys(genres, nextId.genre), n \in Names :
       GenreDetail_put(u, pk, n)
  \/ \E u \in Editors, n \in Names :
       NamedRows < MaxNamed /\ UNCHANGED pending /\ LanguageList_post(u, n)
  \/ \E u \in Editors, pk \in Keys(languages, nextId.language), n \in Names :
       LanguageDetail_put(u, pk, n)

SpecUnique == Init /\ [][NextUnique]_vars

\* two names that differ at most in the case of their letters
IsLetter(c) == (c >= 65 /\ c <= 90) \/ (c >= 97 /\ c <= 122)
SameIgnoringCase(a, b) ==
  /\ Len(a) = Len(b)
  /\ \A i \in 1..Len(a) :
       \/ a[i] = b[i]
       \/ IsLetter(a[i]) /\ IsLetter(b[i]) /\ (a[i] - b[i] = 32 \/ b[i] - a[i] = 32)

NoTwoAlike(table) ==
  \A x, y \in DOMAIN table :
    x # y => ~SameIgnoringCase(table[x].name, table[y].name)

NamedWriteOps ==
  NamedCreateOps \cup NamedUpdateOps \cup
  {"GenreList.post", "GenreDetail.put", "LanguageList.post", "LanguageDetail.put"}

\* C4: whatever creates and renames are served, one after another or
\* interleaved, by the forms or by the JSON API, no two stored Genres and no
\* two stored Languages have names equal up to case; a create or rename
\* whose name another row already bears up to case is answered with a
\* rejection and changes nothing
C4_CaseInsensitiveUnique ==
  [][ /\ NoTwoAlike(genres') /\ NoTwoAlike(languages')
      /\ ( /\ pending' \subseteq pending
           /\ resp'.op \in NamedWriteOps
           /\ LET table == IF resp'.op \in {"GenreCreate", "GenreUpdate",
                                            "GenreList.post", "GenreDetail.put"}
                           THEN genres ELSE languages
              IN  \E x \in (DOMAIN table) \ {resp'.pk} :
                    SameIgnoringCase(table[x].name, resp'.form) )
         => /\ resp'.status \in {"form_error", "server_error", "forbidden",
                                 "redirect_login", "denied", "not_found"}
            /\ store' = store ]_vars

\* a form passed validation, another request stored a name equal to its own
\* up to case, and the save of the form met the unique index
C4_Witness ==
  /\ resp.op \in NamedCreateOps \cup NamedUpdateOps
  /\ resp.status = "server_error"
  /\ \E g \in DOMAIN genres : SameIgnoringCase(genres[g].name, resp.form)
  /\ resp.form \notin {genres[g].name : g \in DOMAIN genres}

(* --------------------------- loans: SpecLoans -------------------------- *)
(* The loan lists over the copies of one seeded book.                      *)

SeededBook ==
  [author |-> NoRef, isbn |-> "9780000000001", language |-> 1, genre |-> {1}]

InitLoans ==
  /\ authors = EmptyTable
  /\ genres = Insert(EmptyTable, 1, [name |-> Name_Ab])
  /\ languages = Insert(EmptyTable, 1, [name |-> Name_Cd])
  /\ books = Insert(EmptyTable, 1, SeededBook)
  /\ instances = EmptyTable
  /\ nextId = [author |-> 1, genre |-> 2, language |-> 2, book |-> 2,
               instance |-> 1]
  /\ today = 0
  /\ sessions = [s \in Sessions |-> {}]
  /\ pending = {}
  /\ resp = Response("", "", "anon", NoRef, << >>, "", << >>)

\* submissions of the BookInstance forms in the loans specification
LoanForms ==
  [book : DOMAIN books, due_back : {NoDate}, status : LOAN_STATUS,
   borrower : Borrowers]

NextLoans ==
  \/ \E d \in LoanForms :
       nextId.instance <= MaxCopies /\ BookInstanceCreate("librarian", d)
  \/ \E pk \in DOMAIN instances, d \in LoanForms :
       BookInstanceUpdate("librarian", pk, d)
  \/ \E pk \in DOMAIN instances : BookInstanceDelete("librarian", pk)
  \/ \E u \in Users : LoanedBooksByUserListView(u)
  \/ \E u \in Users : LoanedBookAllListView(u)

SpecLoans == InitLoans /\ [][NextLoans]_vars

\* C7: the "my loans" list that a user asks for holds only copies borrowed
\* by that user and on loan, never a copy borrowed by another user; an
\* unauthenticated requester is sent to the login and gets no list
C7_OwnLoansOnly ==
  resp.op = "LoanedBooksByUserListView" =>
    IF resp.user = "anon"
    THEN resp.status = "redirect_login" /\ resp.data = << >>
    ELSE /\ resp.status = "rendered"
         /\ \A row \in resp.data :
              /\ row.borrower = resp.user
              /\ row.status = "o"
              /\ row.id \in DOMAIN instances
              /\ instances[row.id].borrower = resp.user

\* the member got a list of loans while a copy lent to the librarian was
\* on loan too
C7_Witness ==
  /\ resp.op = "LoanedBooksByUserListView"
  /\ resp.user = "member"
  /\ resp.status = "rendered"
  /\ resp.data # {}
  /\ \E i \in DOMAIN instances :
       instances[i].borrower = "librarian" /\ instances[i].status = "o"

(* ------------------------- renewal: SpecRenew -------------------------- *)
(* The renewal of one seeded copy while days pass.                         *)

SeededCopy ==
  [book |-> 1, due_back |-> NoDate, status |-> "o", borrower |-> "member"]

InitRenew ==
  /\ authors = EmptyTable
  /\ genres = Insert(EmptyTable, 1, [name |-> Name_Ab])
  /\ languages = Insert(EmptyTable, 1, [name |-> Name_Cd])
  /\ books = Insert(EmptyTable, 1, SeededBook)
  /\ instances = Insert(EmptyTable, 1, SeededCopy)
  /\ nextId = [author |-> 1, genre |-> 2, language |-> 2, book |-> 2,
               instance |-> 2]
  /\ today = 0
  /\ sessions = [s \in Sessions |-> {}]
  /\ pending = {}
  /\ resp = Response("", "", "anon", NoRef, << >>, "", << >>)

\* the dates a form submits: none, yesterday, today, tomorrow, the proposal
FormDates ==
  {NoDate, SomeDate(today - 1), SomeDate(today), SomeDate(today + 1),
   SomeDate(proposed_date_renewal)}

NextRenew ==
  \/ \E u \in Users, pk \in Keys(instances, nextId.instance),
        m \in {"GET", "POST"}, d \in FormDates :
       renew_book_librarian(u, pk, m, d)
  \/ \E pk \in DOMAIN instances, d \in FormDates, st \in {"o", "a"},
        b \in {NoUser, "member"} :
       BookInstanceUpdate("librarian", pk,
         [due_back |-> d, status |-> st, borrower |-> b])
  \/ LoanedBookAllListView("librarian")
  \/ today < MaxDay /\ Tick

SpecRenew == InitRenew /\ [][NextRenew]_vars

\* the request of this step is a renewal that a holder of can_mark_returned
\* makes for a stored copy
PermittedRenewal ==
  /\ today' = today
  /\ resp'.op = "renew_book_librarian"
  /\ resp'.user \in {"librarian", "admin"}
  /\ resp'.pk \in DOMAIN instances

\* C8 as stated: a permitted renewal request that supplies no date leaves
\* the copy due on the day of the request plus 21 days
C8_DefaultStored ==
  [][ (PermittedRenewal /\ resp'.form.renewal_date = NoDate)
      => instances'[resp'.pk].due_back = SomeDate(today + 21) ]_vars

\* C8 as amended: a permitted renewal request that submits no form (GET) is
\* answered with a form that proposes the day of the request plus 21 days
\* and stores nothing; due_back changes only when a form is submitted
\* (POST), and then to the submitted date, with nothing else changed
C8_DefaultProposed ==
  [][ PermittedRenewal =>
      /\ resp'.form.method = "GET" =>
           /\ resp'.status = "rendered"
           /\ resp'.data = SomeDate(today + 21)
           /\ store' = store
      /\ store' # store =>
           /\ resp'.form.method = "POST"
           /\ instances' = [instances EXCEPT
                              ![resp'.pk].due_back = resp'.form.renewal_date]
           /\ UNCHANGED <<authors, genres, languages, books>> ]_vars

\* the librarian opened the renewal form of a copy that was due: the form
\* proposes a date and the copy is due as before
C8_Witness ==
  /\ resp.op = "renew_book_librarian"
  /\ resp.user = "librarian"
  /\ resp.form.method = "GET"
  /\ resp.status = "rendered"
  /\ resp.data = SomeDate(today + 21)
  /\ instances[resp.pk].due_back = SomeDate(today)

\* C9: a copy is overdue exactly when due_back is set and lies strictly
\* before today; due today, due later or not due at all is not overdue,
\* whatever the status and the borrower
C9_Overdue ==
  \A i \in DOMAIN instances :
    is_overdue(instances[i]) =
      (IF instances[i].due_back = NoDate THEN FALSE
       ELSE instances[i].due_back[1] < today)

\* a copy is due since yesterday and reported overdue
C9_Witness ==
  \E i \in DOMAIN instances :
    /\ instances[i].due_back = SomeDate(today - 1)
    /\ is_overdue(instances[i])
    /\ resp.op = "LoanedBookAllListView"
    /\ \E row \in resp.data : row.id = i /\ row.is_overdue

(* ------------------------- visits: SpecVisits -------------------------- *)

NextVisits ==
  \E s \in Sessions : session_get(s, "num_visits", 0) < MaxVisits /\ index(s)

SpecVisits == Init /\ [][NextVisits]_vars

\* the visits a session store holds for a session, 0 when it holds none
Visits(store_, s) ==
  IF \E kv \in store_[s] : kv[1] = "num_visits"
  THEN (CHOOSE kv \in store_[s] : kv[1] = "num_visits")[2]
  ELSE 0

\* C10: every session starts with no visit; a load of the landing view in
\* a session raises the counter of that session by one, reports the new
\* value, and leaves the counter of every other session as it was, so the
\* n-th load of a session reports n
C10_VisitsPerSession ==
  [][ resp'.op = "index" =>
      \E s \in Sessions :
        /\ resp'.data.session = s
        /\ Visits(sessions', s) = Visits(sessions, s) + 1
        /\ resp'.data.num_visits = Visits(sessions', s)
        /\ \A kv \in sessions'[s] : kv = <<"num_visits", Visits(sessions', s)>>
        /\ \A t \in Sessions \ {s} : sessions'[t] = sessions[t] ]_vars

\* the second load of one session reported 2 while another session,
\* loaded once, holds 1, and a third holds nothing
C10_Witness ==
  /\ resp.op = "index"
  /\ resp.data.num_visits = 2
  /\ \E s, t, v \in Sessions :
       /\ resp.data.session = s
       /\ Visits(sessions, s) = 2
       /\ Visits(sessions, t) = 1
       /\ sessions[v] = {}

====
